---- MODULE Spec2Model ----
(***************************************************************************)
(* FinBrain API (src/main.py): three in-memory stores (users_db, sessions, *)
(* accounts_db) and the request handlers that read and write them.         *)
(*                                                                         *)
(* Strings that the handlers take apart or build (the Authorization        *)
(* header, the session token) are sequences of pieces; a piece is a        *)
(* literal fragment such as "Bearer " or an email.  Optional[float] values *)
(* are <<>> for None and <<x>> for the number x.  Clock readings are       *)
(* naturals; datetime.utcnow() never runs backwards here, and two readings *)
(* may be equal.                                                           *)
(*                                                                         *)
(* req and resp hold the last request and its response.  issued is the log *)
(* of the tokens that successful logins returned, deleted the set of ids   *)
(* that successful deletes removed, allocated the number of ids drawn.     *)
(***************************************************************************)
EXTENDS Integers, Sequences, FiniteSets, TLC

VARIABLES users_db, sessions, accounts_db, now, allocated, issued, deleted, req, resp,
          inflight

vars == <<users_db, sessions, accounts_db, now, allocated, issued, deleted, req, resp,
          inflight>>

\* ---------------------------------------------------------------- bounds
MaxTime == 1
MaxAccounts == 2
MaxLogins == 2
MaxSummaryAccounts == 3
MaxInflight == 2

\* ---------------------------------------------------------------- values
None == <<>>
Some(x) == <<x>>

BEARER == "Bearer "

NoHeader == [present |-> FALSE, value |-> <<>>]
Header(s) == [present |-> TRUE, value |-> s]

\* str.startswith("Bearer ") on a sequence of pieces
startswith_Bearer(s) == Len(s) >= 1 /\ s[1] = BEARER

\* str.replace("Bearer ", ""): every occurrence is removed, not only the first
replace_Bearer(s) == SelectSeq(s, LAMBDA p : p # BEARER)

\* datetime.isoformat(): one string per instant, ordered as the instants are
isoformat(t) == [iso |-> t]

\* str(datetime.timestamp())
timestamp(t) == ToString(t)

HTTPException(code, msg) == [status |-> code, detail |-> msg, body |-> None]
OK(b) == [status |-> 200, detail |-> "", body |-> b]
ValidationError == [status |-> 500, detail |-> "Internal Server Error", body |-> None]

\* ---------------------------------------------------------------- models
UserResponse(u) ==
    [email |-> u.email, full_name |-> u.full_name,
     is_officer |-> u.is_officer, created_at |-> u.created_at]

AssetTypes == {"checking", "savings", "investment"}
LiabilityTypes == {"credit_card", "loan"}
AccountType == AssetTypes \cup LiabilityTypes

\* AccountResponse(**account): balance is a required float, so a stored None
\* fails validation; the three Optional[float] fields accept None
AccountResponse_valid(account) == account.balance # None

AccountResponse(account) ==
    [id |-> account.id, user_email |-> account.user_email,
     account_type |-> account.account_type, account_name |-> account.account_name,
     institution |-> account.institution, balance |-> account.balance,
     credit_limit |-> account.credit_limit, interest_rate |-> account.interest_rate,
     minimum_payment |-> account.minimum_payment,
     created_at |-> account.created_at, updated_at |-> account.updated_at]

\* the balance of a liability taken as it is stored
abs_raw(x) == x

abs(x) == IF x < 0 THEN -x ELSE x

\* ---------------------------------------------------------------- stores
\* accounts_db is a dict: pairs [key, val] in insertion order, keys distinct
Keys(db) == { db[i].key : i \in 1..Len(db) }
IndexOf(db, k) == CHOOSE i \in 1..Len(db) : db[i].key = k
Lookup(db, k) == db[IndexOf(db, k)].val
\* a store that adds a row on every write, also for a key it already holds
Put_append(db, k, v) == Append(db, [key |-> k, val |-> v])

\* db[k] = v: an existing key keeps its position, a new key goes last
Put(db, k, v) ==
    IF k \in Keys(db)
    THEN [db EXCEPT ![IndexOf(db, k)] = [key |-> k, val |-> v]]
    ELSE Append(db, [key |-> k, val |-> v])
\* del db[k]
Del(db, k) == SelectSeq(db, LAMBDA e : e.key # k)
\* [account for account in db.values() if account["user_email"] == user]
AccountsOf(db, user) ==
    LET mine == SelectSeq(db, LAMBDA e : e.val.user_email = user)
    IN [i \in 1..Len(mine) |-> mine[i].val]

\* an identifier derived from the size of the store: reused after a delete
uuid4_reuse == Len(accounts_db) + 1

\* str(uuid.uuid4()): an identifier no earlier call returned
uuid4 == allocated + 1

\* ---------------------------------------------------------------- auth
get_current_user(authorization) ==
    IF ~authorization.present \/ authorization.value = <<>>
          \/ ~startswith_Bearer(authorization.value)
    THEN [ok |-> FALSE, detail |-> "Not authenticated", user |-> ""]
    ELSE LET token == replace_Bearer(authorization.value) IN
         IF token \notin DOMAIN sessions
         THEN [ok |-> FALSE, detail |-> "Invalid token", user |-> ""]
         ELSE [ok |-> TRUE, detail |-> "", user |-> sessions[token]]

\* a token built from the clock reading alone
make_token_noemail(email, t) == <<"token-", timestamp(t)>>

\* f"token-{user.email}-{datetime.utcnow().timestamp()}"
make_token(email, t) == <<"token-", email, "-", timestamp(t)>>

\* ---------------------------------------------------------------- inputs
Emails == {"a@x.io", "b@x.io"}

RegisterBodies ==
    { [email |-> "a@x.io", password |-> "p", full_name |-> "", is_officer |-> FALSE],
      [email |-> "a@x.io", password |-> "q", full_name |-> "Ann", is_officer |-> TRUE],
      [email |-> "b@x.io", password |-> "p", full_name |-> "", is_officer |-> FALSE] }

LoginBodies ==
    { [email |-> "a@x.io", password |-> "p"],
      [email |-> "a@x.io", password |-> "q"],
      [email |-> "b@x.io", password |-> "p"] }

Garbage == <<"xyz">>

\* what a client can put in the Authorization header: nothing, or a token it
\* holds (or a made-up one) bare, with the prefix, or with the prefix twice
Tokens == DOMAIN sessions \cup {Garbage}
Headers ==
    {NoHeader} \cup { Header(t) : t \in Tokens }
               \cup { Header(<<BEARER>> \o t) : t \in Tokens }
               \cup { Header(<<BEARER, BEARER>> \o t) : t \in Tokens }

CreateBodies ==
    { [account_type |-> "checking", account_name |-> "Main", institution |-> "A",
       balance |-> Some(100), credit_limit |-> None, interest_rate |-> Some(2),
       minimum_payment |-> None],
      [account_type |-> "credit_card", account_name |-> "Card", institution |-> "B",
       balance |-> Some(-30), credit_limit |-> Some(500), interest_rate |-> None,
       minimum_payment |-> Some(10)] }

UpdateFields == {"balance", "credit_limit", "interest_rate", "minimum_payment"}

\* AccountUpdate bodies as update_data.dict(exclude_unset=True) sees them:
\* only the fields the request carried, an explicit null included
UpdateBodies ==
    { <<>>,
      [balance |-> Some(-7), minimum_payment |-> None],
      [balance |-> None] }

AccountIds == 1..MaxAccounts

\* the headers the account requests carry: none, a held token, a made-up one
AccountHeaders ==
    {NoHeader} \cup { Header(<<BEARER>> \o t) : t \in Tokens }

Request(op, h, id, b) == [op |-> op, authorization |-> h, account_id |-> id, body |-> b]

\* ---------------------------------------------------------------- state
\* the requests the server has accepted and not yet answered: none
Slots == 1..MaxInflight
NoInflight ==
    [s \in Slots |-> [pc |-> "idle", request |-> Request("none", NoHeader, 0, None),
                       status |-> 0, raced |-> FALSE]]

Init ==
    /\ users_db = <<>>
    /\ sessions = <<>>
    /\ accounts_db = <<>>
    /\ now = 0
    /\ allocated = 0
    /\ issued = <<>>
    /\ deleted = {}
    /\ req = Request("none", NoHeader, 0, None)
    /\ resp = OK(None)
    /\ inflight = NoInflight

\* the clock advances between requests
Tick ==
    /\ now < MaxTime
    /\ now' = now + 1
    /\ UNCHANGED <<users_db, sessions, accounts_db, allocated, issued, deleted, req, resp>>

\* register without the duplicate check: a second registration overwrites
register_overwrite(user) ==
    /\ req' = Request("register", NoHeader, 0, user)
    /\ LET rec == [email |-> user.email, password |-> user.password,
                   full_name |-> user.full_name, is_officer |-> user.is_officer,
                   created_at |-> isoformat(now)]
       IN /\ users_db' = [e \in DOMAIN users_db \cup {user.email} |->
                            IF e = user.email THEN rec ELSE users_db[e]]
          /\ resp' = OK(UserResponse(rec))
    /\ UNCHANGED <<sessions, accounts_db, now, allocated, issued, deleted>>

register(user) ==
    /\ req' = Request("register", NoHeader, 0, user)
    /\ IF user.email \in DOMAIN users_db
       THEN /\ resp' = HTTPException(400, "Email already registered")
            /\ UNCHANGED users_db
       ELSE LET rec == [email |-> user.email, password |-> user.password,
                        full_name |-> user.full_name, is_officer |-> user.is_officer,
                        created_at |-> isoformat(now)]
            IN /\ users_db' = [e \in DOMAIN users_db \cup {user.email} |->
                                 IF e = user.email THEN rec ELSE users_db[e]]
               /\ resp' = OK(UserResponse(rec))
    /\ UNCHANGED <<sessions, accounts_db, now, allocated, issued, deleted>>

\* login that tells an unknown email from a wrong password
login_leaky(user) ==
    /\ req' = Request("login", NoHeader, 0, user)
    /\ IF user.email \notin DOMAIN users_db
       THEN /\ resp' = HTTPException(404, "User not found")
            /\ UNCHANGED <<sessions, issued>>
       ELSE IF users_db[user.email].password # user.password
       THEN /\ resp' = HTTPException(401, "Invalid credentials")
            /\ UNCHANGED <<sessions, issued>>
       ELSE LET token == make_token(user.email, now) IN
            /\ Len(issued) < MaxLogins
            /\ sessions' = [t \in DOMAIN sessions \cup {token} |->
                              IF t = token THEN user.email ELSE sessions[t]]
            /\ issued' = Append(issued, [token |-> token, email |-> user.email])
            /\ resp' = OK([access_token |-> token, token_type |-> "bearer",
                           user |-> UserResponse(users_db[user.email])])
    /\ UNCHANGED <<users_db, accounts_db, now, allocated, deleted>>

\* login that checks the password only of an email it knows
login_unchecked(user) ==
    /\ req' = Request("login", NoHeader, 0, user)
    /\ IF user.email \in DOMAIN users_db
          /\ users_db[user.email].password # user.password
       THEN /\ resp' = HTTPException(401, "Invalid credentials")
            /\ UNCHANGED <<sessions, issued>>
       ELSE LET token == make_token(user.email, now) IN
            /\ Len(issued) < MaxLogins
            /\ sessions' = [t \in DOMAIN sessions \cup {token} |->
                              IF t = token THEN user.email ELSE sessions[t]]
            /\ issued' = Append(issued, [token |-> token, email |-> user.email])
            /\ resp' = OK([access_token |-> token, token_type |-> "bearer",
                           user |-> None])
    /\ UNCHANGED <<users_db, accounts_db, now, allocated, deleted>>

login(user) ==
    /\ req' = Request("login", NoHeader, 0, user)
    /\ IF user.email \notin DOMAIN users_db
       THEN /\ resp' = HTTPException(401, "Invalid credentials")
            /\ UNCHANGED <<sessions, issued>>
       ELSE IF users_db[user.email].password # user.password
       THEN /\ resp' = HTTPException(401, "Invalid credentials")
            /\ UNCHANGED <<sessions, issued>>
       ELSE LET token == make_token(user.email, now) IN
            /\ Len(issued) < MaxLogins
            /\ sessions' = [t \in DOMAIN sessions \cup {token} |->
                              IF t = token THEN user.email ELSE sessions[t]]
            /\ issued' = Append(issued, [token |-> token, email |-> user.email])
            /\ resp' = OK([access_token |-> token, token_type |-> "bearer",
                           user |-> UserResponse(users_db[user.email])])
    /\ UNCHANGED <<users_db, accounts_db, now, allocated, deleted>>

get_current_user_profile(authorization) ==
    /\ req' = Request("me", authorization, 0, None)
    /\ LET auth == get_current_user(authorization) IN
       IF ~auth.ok
       THEN resp' = HTTPException(401, auth.detail)
       ELSE resp' = OK(UserResponse(users_db[auth.user]))
    /\ UNCHANGED <<users_db, sessions, accounts_db, now, allocated, issued, deleted>>

\* create that answers with a record stamped by a further clock reading
create_account_restamp(authorization, account) ==
    /\ req' = Request("create", authorization, 0, account)
    /\ LET auth == get_current_user(authorization) IN
       IF ~auth.ok
       THEN /\ resp' = HTTPException(401, auth.detail)
            /\ UNCHANGED <<accounts_db, now, allocated>>
       ELSE /\ allocated < MaxAccounts
            /\ \E t2 \in {t \in {now, now + 1} : t <= MaxTime} :
                 LET account_id == uuid4
                     account_data ==
                       [id |-> account_id, user_email |-> auth.user,
                        account_type |-> account.account_type,
                        account_name |-> account.account_name,
                        institution |-> account.institution,
                        balance |-> account.balance,
                        credit_limit |-> account.credit_limit,
                        interest_rate |-> account.interest_rate,
                        minimum_payment |-> account.minimum_payment,
                        created_at |-> isoformat(now),
                        updated_at |-> isoformat(now)]
                 IN /\ accounts_db' = Put(accounts_db, account_id, account_data)
                    /\ allocated' = allocated + 1
                    /\ now' = t2
                    /\ resp' = OK(AccountResponse(
                                   [account_data EXCEPT !.updated_at = isoformat(t2)]))
    /\ UNCHANGED <<users_db, sessions, issued, deleted>>

create_account(authorization, account) ==
    /\ req' = Request("create", authorization, 0, account)
    /\ LET auth == get_current_user(authorization) IN
       IF ~auth.ok
       THEN /\ resp' = HTTPException(401, auth.detail)
            /\ UNCHANGED <<accounts_db, now, allocated>>
       ELSE /\ allocated < MaxAccounts
            /\ \E t2 \in {t \in {now, now + 1} : t <= MaxTime} :
                 LET account_id == uuid4
                     account_data ==
                       [id |-> account_id, user_email |-> auth.user,
                        account_type |-> account.account_type,
                        account_name |-> account.account_name,
                        institution |-> account.institution,
                        balance |-> account.balance,
                        credit_limit |-> account.credit_limit,
                        interest_rate |-> account.interest_rate,
                        minimum_payment |-> account.minimum_payment,
                        created_at |-> isoformat(now),
                        updated_at |-> isoformat(t2)]
                 IN /\ accounts_db' = Put(accounts_db, account_id, account_data)
                    /\ allocated' = allocated + 1
                    /\ now' = t2
                    /\ resp' = OK(AccountResponse(account_data))
    /\ UNCHANGED <<users_db, sessions, issued, deleted>>

list_accounts_result(db, current_user) ==
    LET mine == AccountsOf(db, current_user) IN
    IF \E i \in 1..Len(mine) : ~AccountResponse_valid(mine[i])
    THEN ValidationError
    ELSE OK([i \in 1..Len(mine) |-> AccountResponse(mine[i])])

list_accounts(authorization) ==
    /\ req' = Request("list", authorization, 0, None)
    /\ LET auth == get_current_user(authorization) IN
       IF ~auth.ok
       THEN resp' = HTTPException(401, auth.detail)
       ELSE resp' = list_accounts_result(accounts_db, auth.user)
    /\ UNCHANGED <<users_db, sessions, accounts_db, now, allocated, issued, deleted>>

\* one pass of the loop body of get_accounts_summary over user_accounts[i..]
RECURSIVE summary_loop(_, _, _)
summary_loop(user_accounts, i, st) ==
    IF i > Len(user_accounts) THEN st
    ELSE LET account == user_accounts[i]
             account_type == account.account_type
             fresh == account_type \notin DOMAIN st.accounts_by_type
             types == DOMAIN st.accounts_by_type \cup {account_type}
             by_type == [t \in types |->
                           IF t = account_type
                           THEN Append(IF fresh THEN <<>> ELSE st.accounts_by_type[t],
                                       AccountResponse(account))
                           ELSE st.accounts_by_type[t]]
             amount == IF account_type \in {"checking", "savings", "investment"}
                       THEN account.balance[1]
                       ELSE IF account_type \in {"credit_card", "loan"}
                       THEN abs(account.balance[1])
                       ELSE 0
             totals == [t \in types |->
                           IF t = account_type
                           THEN (IF fresh THEN 0 ELSE st.total_by_type[t]) + amount
                           ELSE st.total_by_type[t]]
         IN summary_loop(user_accounts, i + 1,
              [total_assets |-> st.total_assets +
                  (IF account_type \in {"checking", "savings", "investment"}
                   THEN amount ELSE 0),
               total_liabilities |-> st.total_liabilities +
                  (IF account_type \in {"checking", "savings", "investment"}
                   THEN 0 ELSE amount),
               accounts_by_type |-> by_type,
               total_by_type |-> totals])

\* a summary whose two maps start with an entry for each of the five types
get_accounts_summary_result_zeroinit(db, current_user) ==
    LET user_accounts == AccountsOf(db, current_user) IN
    IF \E i \in 1..Len(user_accounts) : ~AccountResponse_valid(user_accounts[i])
    THEN ValidationError
    ELSE LET st == summary_loop(user_accounts, 1,
                      [total_assets |-> 0, total_liabilities |-> 0,
                       accounts_by_type |-> [t \in AccountType |-> <<>>],
                       total_by_type |-> [t \in AccountType |-> 0]])
         IN OK([total_assets |-> st.total_assets,
                total_liabilities |-> st.total_liabilities,
                net_worth |-> st.total_assets - st.total_liabilities,
                accounts_by_type |-> st.accounts_by_type,
                total_by_type |-> st.total_by_type])

get_accounts_summary_result(db, current_user) ==
    LET user_accounts == AccountsOf(db, current_user) IN
    IF \E i \in 1..Len(user_accounts) : ~AccountResponse_valid(user_accounts[i])
    THEN ValidationError
    ELSE LET st == summary_loop(user_accounts, 1,
                      [total_assets |-> 0, total_liabilities |-> 0,
                       accounts_by_type |-> <<>>, total_by_type |-> <<>>])
         IN OK([total_assets |-> st.total_assets,
                total_liabilities |-> st.total_liabilities,
                net_worth |-> st.total_assets - st.total_liabilities,
                accounts_by_type |-> st.accounts_by_type,
                total_by_type |-> st.total_by_type])

get_accounts_summary(authorization) ==
    /\ req' = Request("summary", authorization, 0, None)
    /\ LET auth == get_current_user(authorization) IN
       IF ~auth.ok
       THEN resp' = HTTPException(401, auth.detail)
       ELSE resp' = get_accounts_summary_result(accounts_db, auth.user)
    /\ UNCHANGED <<users_db, sessions, accounts_db, now, allocated, issued, deleted>>


get_account_result(db, account_id, current_user) ==
    IF account_id \notin Keys(db)
    THEN HTTPException(404, "Account not found")
    ELSE LET account == Lookup(db, account_id) IN
         IF account.user_email # current_user
         THEN HTTPException(403, "Not authorized to access this account")
         ELSE IF ~AccountResponse_valid(account) THEN ValidationError
         ELSE OK(AccountResponse(account))

get_account(authorization, account_id) ==
    /\ req' = Request("get", authorization, account_id, None)
    /\ LET auth == get_current_user(authorization) IN
       IF ~auth.ok
       THEN resp' = HTTPException(401, auth.detail)
       ELSE resp' = get_account_result(accounts_db, account_id, auth.user)
    /\ UNCHANGED <<users_db, sessions, accounts_db, now, allocated, issued, deleted>>

\* update_data.dict() without exclude_unset: unset fields arrive as None
apply_update_all(account, update_dict) ==
    [f \in DOMAIN account |->
        IF f \in DOMAIN update_dict THEN update_dict[f]
        ELSE IF f \in UpdateFields THEN None ELSE account[f]]

\* for field, value in update_dict.items(): account[field] = value
apply_update(account, update_dict) ==
    [f \in DOMAIN account |->
        IF f \in DOMAIN update_dict THEN update_dict[f] ELSE account[f]]

update_account(authorization, account_id, update_data) ==
    /\ req' = Request("update", authorization, account_id, update_data)
    /\ LET auth == get_current_user(authorization) IN
       IF ~auth.ok
       THEN /\ resp' = HTTPException(401, auth.detail)
            /\ UNCHANGED accounts_db
       ELSE IF account_id \notin Keys(accounts_db)
       THEN /\ resp' = HTTPException(404, "Account not found")
            /\ UNCHANGED accounts_db
       ELSE IF Lookup(accounts_db, account_id).user_email # auth.user
       THEN /\ resp' = HTTPException(403, "Not authorized to update this account")
            /\ UNCHANGED accounts_db
       ELSE LET account == [apply_update(Lookup(accounts_db, account_id), update_data)
                              EXCEPT !.updated_at = isoformat(now)]
            IN /\ accounts_db' = Put(accounts_db, account_id, account)
               /\ resp' = IF AccountResponse_valid(account)
                          THEN OK(AccountResponse(account))
                          ELSE ValidationError
    /\ UNCHANGED <<users_db, sessions, now, allocated, issued, deleted>>

\* delete that hides another user's account behind 404
delete_account_hide(authorization, account_id) ==
    /\ req' = Request("delete", authorization, account_id, None)
    /\ LET auth == get_current_user(authorization) IN
       IF ~auth.ok
       THEN /\ resp' = HTTPException(401, auth.detail)
            /\ UNCHANGED <<accounts_db, deleted>>
       ELSE IF account_id \notin Keys(accounts_db)
               \/ Lookup(accounts_db, account_id).user_email # auth.user
       THEN /\ resp' = HTTPException(404, "Account not found")
            /\ UNCHANGED <<accounts_db, deleted>>
       ELSE /\ accounts_db' = Del(accounts_db, account_id)
            /\ deleted' = deleted \cup {account_id}
            /\ resp' = OK([message |-> "Account deleted successfully"])
    /\ UNCHANGED <<users_db, sessions, now, allocated, issued>>

delete_account(authorization, account_id) ==
    /\ req' = Request("delete", authorization, account_id, None)
    /\ LET auth == get_current_user(authorization) IN
       IF ~auth.ok
       THEN /\ resp' = HTTPException(401, auth.detail)
            /\ UNCHANGED <<accounts_db, deleted>>
       ELSE IF account_id \notin Keys(accounts_db)
       THEN /\ resp' = HTTPException(404, "Account not found")
            /\ UNCHANGED <<accounts_db, deleted>>
       ELSE IF Lookup(accounts_db, account_id).user_email # auth.user
       THEN /\ resp' = HTTPException(403, "Not authorized to delete this account")
            /\ UNCHANGED <<accounts_db, deleted>>
       ELSE /\ accounts_db' = Del(accounts_db, account_id)
            /\ deleted' = deleted \cup {account_id}
            /\ resp' = OK([message |-> "Account deleted successfully"])
    /\ UNCHANGED <<users_db, sessions, now, allocated, issued>>

\* ------------------------------------------------- registration and login
NextAuth ==
    \/ Tick /\ UNCHANGED inflight
    \/ \E user \in RegisterBodies : register(user) /\ UNCHANGED inflight
    \/ \E user \in LoginBodies : login(user) /\ UNCHANGED inflight
    \/ \E h \in Headers : get_current_user_profile(h) /\ UNCHANGED inflight

SpecAuth == Init /\ [][NextAuth]_vars

\* ------------------------------------------------- accounts of two users
\* the state after both users registered and logged in at time 0
InitAccounts ==
    LET ra == [email |-> "a@x.io", password |-> "p", full_name |-> "",
               is_officer |-> FALSE, created_at |-> isoformat(0)]
        rb == [email |-> "b@x.io", password |-> "p", full_name |-> "",
               is_officer |-> FALSE, created_at |-> isoformat(0)]
        ta == make_token("a@x.io", 0)
        tb == make_token("b@x.io", 0)
    IN /\ users_db = [e \in Emails |-> IF e = "a@x.io" THEN ra ELSE rb]
       /\ sessions = [t \in {ta, tb} |-> IF t = ta THEN "a@x.io" ELSE "b@x.io"]
       /\ issued = <<[token |-> ta, email |-> "a@x.io"], [token |-> tb, email |-> "b@x.io"]>>
       /\ accounts_db = <<>>
       /\ now = 0
       /\ allocated = 0
       /\ deleted = {}
       /\ req = Request("none", NoHeader, 0, None)
       /\ resp = OK(None)
       /\ inflight = NoInflight

NextAccounts ==
    \/ Tick /\ UNCHANGED inflight
    \/ \E h \in AccountHeaders, account \in CreateBodies : create_account(h, account) /\ UNCHANGED inflight
    \/ \E h \in AccountHeaders : list_accounts(h) /\ UNCHANGED inflight
    \/ \E h \in AccountHeaders : get_accounts_summary(h) /\ UNCHANGED inflight
    \/ \E h \in AccountHeaders, id \in AccountIds : get_account(h, id) /\ UNCHANGED inflight
    \/ \E h \in AccountHeaders, id \in AccountIds, u \in UpdateBodies :
          update_account(h, id, u) /\ UNCHANGED inflight
    \/ \E h \in AccountHeaders, id \in AccountIds : delete_account(h, id) /\ UNCHANGED inflight

SpecAccounts == InitAccounts /\ [][NextAccounts]_vars
\* ------------------------------------------------- the summary of any store
SummaryBalances == {Some(-30), Some(100), None}

\* a store of accounts created in the order of their ids by either user, of
\* any type, with a balance as create or update leaves it
SummaryStore(f) ==
    [i \in DOMAIN f |->
        [key |-> i,
         val |-> [id |-> i, user_email |-> f[i][1], account_type |-> f[i][2],
                  account_name |-> "Main", institution |-> "A",
                  balance |-> f[i][3], credit_limit |-> None,
                  interest_rate |-> None, minimum_payment |-> None,
                  created_at |-> isoformat(0), updated_at |-> isoformat(0)]]]

InitSummary ==
    LET ra == [email |-> "a@x.io", password |-> "p", full_name |-> "",
               is_officer |-> FALSE, created_at |-> isoformat(0)]
        rb == [email |-> "b@x.io", password |-> "p", full_name |-> "",
               is_officer |-> FALSE, created_at |-> isoformat(0)]
        ta == make_token("a@x.io", 0)
        tb == make_token("b@x.io", 0)
    IN /\ users_db = [e \in Emails |-> IF e = "a@x.io" THEN ra ELSE rb]
       /\ sessions = [t \in {ta, tb} |-> IF t = ta THEN "a@x.io" ELSE "b@x.io"]
       /\ issued = <<[token |-> ta, email |-> "a@x.io"], [token |-> tb, email |-> "b@x.io"]>>
       /\ \E n \in 0..MaxSummaryAccounts :
            \E f \in [1..n -> Emails \X AccountType \X SummaryBalances] :
               accounts_db = SummaryStore(f)
       /\ now = 0
       /\ allocated = Len(accounts_db)
       /\ deleted = {}
       /\ req = Request("none", NoHeader, 0, None)
       /\ resp = OK(None)
       /\ inflight = NoInflight

NextSummary == \E h \in AccountHeaders : get_accounts_summary(h) /\ UNCHANGED inflight

SpecSummary == InitSummary /\ [][NextSummary]_vars

\* =================================================================== claims
RequestStep(op) == req'.op = op /\ now' = now
Caller(r) == get_current_user(r.authorization)
AuthenticatedOps == {"me", "create", "list", "summary", "get", "update", "delete"}

\* C1: every token a successful login returned, presented as "Bearer <token>",
\* authenticates to the email that logged in, in every later state.
C1_TokenAuthenticatesLogin ==
    \A i \in 1..Len(issued) :
        LET auth == get_current_user(Header(<<BEARER>> \o issued[i].token))
        IN auth.ok /\ auth.user = issued[i].email

\* two users hold sessions and the first token issued has just fetched the
\* profile of the user it was issued to
C1_Witness ==
    /\ Len(issued) = 2
    /\ issued[1].email # issued[2].email
    /\ req.op = "me"
    /\ req.authorization = Header(<<BEARER>> \o issued[1].token)
    /\ resp.status = 200
    /\ resp.body.email = issued[1].email
\* C3: on an authenticated endpoint a header that is absent or lacks the
\* "Bearer " prefix gets 401 "Not authenticated"; a prefixed header whose
\* remainder after the one leading "Bearer " is no session key gets 401
\* "Invalid token"; a request is authenticated only if that remainder is a
\* session key.
C3_BearerExactly ==
    req.op \in AuthenticatedOps =>
        LET h == req.authorization
            prefixed == h.present /\ startswith_Bearer(h.value)
        IN /\ ~prefixed =>
                resp.status = 401 /\ resp.detail = "Not authenticated"
           /\ (prefixed /\ Tail(h.value) \notin DOMAIN sessions) =>
                resp.status = 401 /\ resp.detail = "Invalid token"
           /\ resp.status # 401 =>
                prefixed /\ Tail(h.value) \in DOMAIN sessions

\* C4: registering an email that is already in users_db answers 400 "Email
\* already registered" and leaves users_db as it was, whatever the body carries.
C4_DuplicateRegisterRejected ==
    [][ (RequestStep("register") /\ req'.body.email \in DOMAIN users_db) =>
           /\ resp'.status = 400
           /\ resp'.detail = "Email already registered"
           /\ users_db' = users_db ]_vars

\* a second registration with another password, name and officer flag was refused
C4_Witness ==
    /\ req.op = "register"
    /\ resp.status = 400
    /\ req.body.email \in DOMAIN users_db
    /\ users_db[req.body.email].password # req.body.password
    /\ users_db[req.body.email].full_name # req.body.full_name
    /\ users_db[req.body.email].is_officer # req.body.is_officer

\* C5: a login with an unregistered email and a login with a wrong password
\* get the same response, 401 "Invalid credentials" with no token, and leave
\* the session store unchanged.
C5_LoginFailuresAlike ==
    [][ (RequestStep("login") /\
           (req'.body.email \notin DOMAIN users_db
              \/ users_db[req'.body.email].password # req'.body.password)) =>
           /\ resp' = HTTPException(401, "Invalid credentials")
           /\ sessions' = sessions
           /\ issued' = issued ]_vars

\* a registered user holding a session gave a wrong password and was refused,
\* while the other email is still unregistered
C5_Witness ==
    /\ req.op = "login"
    /\ resp.status = 401
    /\ req.body.email \in DOMAIN users_db
    /\ users_db[req.body.email].password # req.body.password
    /\ \E i \in 1..Len(issued) : issued[i].email = req.body.email
    /\ DOMAIN users_db # Emails

\* C9: every successful login returns a token no earlier login returned, so
\* the session store has one entry per successful login.
C9_TokensUnique ==
    /\ \A i, j \in 1..Len(issued) : i # j => issued[i].token # issued[j].token
    /\ Cardinality(DOMAIN sessions) = Len(issued)
\* C2: get, update and delete by an authenticated caller answer 403 when the
\* id is in accounts_db under another owner, and answer 404 only when the id
\* is not in accounts_db.
C2_ForbiddenNotNotFound ==
    [][ \A op \in {"get", "update", "delete"} :
          (RequestStep(op) /\ Caller(req').ok) =>
             LET id == req'.account_id IN
             /\ (id \in Keys(accounts_db)
                   /\ Lookup(accounts_db, id).user_email # Caller(req').user)
                  => resp'.status = 403
             /\ resp'.status = 404 => id \notin Keys(accounts_db) ]_vars

\* a logged-in user asked to delete an account that another user owns
C2_Witness ==
    /\ req.op = "delete"
    /\ resp.status = 403
    /\ req.account_id \in Keys(accounts_db)
    /\ Lookup(accounts_db, req.account_id).user_email # Caller(req).user

ImmutableFields ==
    {"id", "user_email", "account_type", "account_name", "institution", "created_at"}

\* C6: a successful update overwrites exactly the supplied fields of the
\* account, keeps every other field of it and every other account, and sets
\* updated_at to the current time, which is no earlier than the previous one.
C6_UpdateFrame ==
    [][ (RequestStep("update") /\ resp'.status = 200) =>
          LET id == req'.account_id
              body == req'.body
          IN /\ id \in Keys(accounts_db) /\ id \in Keys(accounts_db')
             /\ LET old == Lookup(accounts_db, id)
                    new == Lookup(accounts_db', id)
                IN /\ \A f \in UpdateFields :
                        new[f] = IF f \in DOMAIN body THEN body[f] ELSE old[f]
                   /\ \A f \in ImmutableFields : new[f] = old[f]
                   /\ new.updated_at = isoformat(now)
                   /\ new.updated_at.iso >= old.updated_at.iso
             /\ Len(accounts_db') = Len(accounts_db)
             /\ \A i \in 1..Len(accounts_db) :
                   /\ accounts_db'[i].key = accounts_db[i].key
                   /\ accounts_db[i].key # id => accounts_db'[i] = accounts_db[i] ]_vars

\* with two accounts stored, the owner changed the balance of one after the
\* clock had advanced past its creation
C6_Witness ==
    /\ req.op = "update"
    /\ resp.status = 200
    /\ "balance" \in DOMAIN req.body
    /\ Len(accounts_db) = 2
    /\ LET a == Lookup(accounts_db, req.account_id)
       IN /\ a.balance = req.body.balance
          /\ a.updated_at.iso > a.created_at.iso
          /\ a.credit_limit # None

\* C7: an id that a successful delete removed never returns to accounts_db,
\* and every later get, update or delete of it by an authenticated caller
\* answers 404.
C7_DeletedStaysGone ==
    [][ /\ \A id \in deleted : id \notin Keys(accounts_db')
        /\ \A op \in {"get", "update", "delete"} :
             (RequestStep(op) /\ Caller(req').ok /\ req'.account_id \in deleted)
                => resp'.status = 404 ]_vars

\* an account was deleted, another was created afterwards, and an update of
\* the deleted id was answered 404
C7_Witness ==
    /\ req.op = "update"
    /\ req.account_id \in deleted
    /\ resp.status = 404
    /\ Len(accounts_db) >= 1
    /\ \E i \in 1..Len(accounts_db) : accounts_db[i].key > req.account_id

\* C10: after a successful create, a get of the returned id by the same user
\* returns the record that create returned; its owner is the caller and its
\* supplied fields are those of the request body.
C10_CreateThenGet ==
    (req.op = "create" /\ resp.status = 200) =>
        LET got == get_account_result(accounts_db, resp.body.id, Caller(req).user)
        IN /\ got.status = 200
           /\ got.body = resp.body
           /\ resp.body.user_email = Caller(req).user
           /\ \A f \in DOMAIN req.body : resp.body[f] = req.body[f]

\* the second user created an account while the clock advanced between the
\* two timestamps, next to an account of the first user
C10_Witness ==
    /\ req.op = "create"
    /\ resp.status = 200
    /\ Len(accounts_db) = 2
    /\ accounts_db[1].val.user_email # resp.body.user_email
    /\ resp.body.updated_at.iso > resp.body.created_at.iso
    /\ resp.body.credit_limit # None
\* the indices of the accounts of user in the store, and sums over them
OwnedBy(user) == { i \in 1..Len(accounts_db) : accounts_db[i].val.user_email = user }
OfType(I, T) == { i \in I : accounts_db[i].val.account_type \in T }
RECURSIVE SumRaw(_)
SumRaw(I) ==
    IF I = {} THEN 0
    ELSE LET i == CHOOSE j \in I : TRUE
         IN accounts_db[i].val.balance[1] + SumRaw(I \ {i})
RECURSIVE SumAbs(_)
SumAbs(I) ==
    IF I = {} THEN 0
    ELSE LET i == CHOOSE j \in I : TRUE
             b == accounts_db[i].val.balance[1]
         IN (IF b < 0 THEN 0 - b ELSE b) + SumAbs(I \ {i})

NextSystem ==
    \/ Tick /\ UNCHANGED inflight
    \/ \E user \in RegisterBodies : register(user) /\ UNCHANGED inflight
    \/ \E user \in LoginBodies : login(user) /\ UNCHANGED inflight
    \/ \E h \in Headers : get_current_user_profile(h) /\ UNCHANGED inflight
    \/ \E h \in AccountHeaders, account \in CreateBodies : create_account(h, account) /\ UNCHANGED inflight
    \/ \E h \in AccountHeaders, id \in AccountIds : delete_account(h, id) /\ UNCHANGED inflight

SpecSystem == Init /\ [][NextSystem]_vars

\* ------------------------------------------- a caller who forms the token
\* the owner a@x.io logs in and creates accounts with the token of the login
\* response; every get, update and delete is sent by b@x.io, who knows the
\* account ids, the emails and the clock but has seen no login response of
\* a@x.io, and who writes the header from the token format
Owner == "a@x.io"
OwnerLogin == [email |-> Owner, password |-> "p"]
OwnerHeaders ==
    { Header(<<BEARER>> \o t) : t \in {k \in DOMAIN sessions : sessions[k] = Owner} }
IntruderHeaders ==
    {NoHeader, Header(<<BEARER>> \o Garbage)}
       \cup { Header(<<BEARER>> \o make_token(e, t)) : e \in Emails, t \in 0..now }

InitIntruder ==
    LET ra == [email |-> "a@x.io", password |-> "p", full_name |-> "",
               is_officer |-> FALSE, created_at |-> isoformat(0)]
        rb == [email |-> "b@x.io", password |-> "p", full_name |-> "",
               is_officer |-> FALSE, created_at |-> isoformat(0)]
    IN /\ users_db = [e \in Emails |-> IF e = "a@x.io" THEN ra ELSE rb]
       /\ sessions = <<>>
       /\ issued = <<>>
       /\ accounts_db = <<>>
       /\ now = 0
       /\ allocated = 0
       /\ deleted = {}
       /\ req = Request("none", NoHeader, 0, None)
       /\ resp = OK(None)
       /\ inflight = NoInflight

NextIntruder ==
    \/ Tick /\ UNCHANGED inflight
    \/ login(OwnerLogin) /\ UNCHANGED inflight
    \/ \E h \in OwnerHeaders, account \in CreateBodies : create_account(h, account) /\ UNCHANGED inflight
    \/ \E h \in IntruderHeaders, id \in AccountIds : get_account(h, id) /\ UNCHANGED inflight
    \/ \E h \in IntruderHeaders, id \in AccountIds, u \in UpdateBodies :
          update_account(h, id, u) /\ UNCHANGED inflight
    \/ \E h \in IntruderHeaders, id \in AccountIds : delete_account(h, id) /\ UNCHANGED inflight

SpecIntruder == InitIntruder /\ [][NextIntruder]_vars

\* ----------------------------------------------------- concurrent requests
\* Requests are tasks of one event loop. A request is accepted (Arrive), waits
\* while other tasks run, and is then served (Handle). No handler contains an
\* await, so a handler that has started runs to its return before any other
\* task is scheduled: Handle is one step. a@x.io is registered, logged in and
\* holds account 1; b@x.io is not registered. sessions does not change here,
\* so the dependency get_current_user reads the same value whenever it runs.
OwnerHeader == Header(<<BEARER>> \o make_token(Owner, 0))
ConcurrentRequests ==
    { Request("register", NoHeader, 0, user) :
         user \in {u \in RegisterBodies : u.email = "b@x.io"} }
       \cup { Request("update", OwnerHeader, 1, u) : u \in UpdateBodies }
       \cup { Request("delete", OwnerHeader, 1, None) }

InitConcurrent ==
    LET ra == [email |-> Owner, password |-> "p", full_name |-> "",
               is_officer |-> FALSE, created_at |-> isoformat(0)]
        ta == make_token(Owner, 0)
    IN /\ users_db = [e \in {Owner} |-> ra]
       /\ sessions = [t \in {ta} |-> Owner]
       /\ issued = <<[token |-> ta, email |-> Owner]>>
       /\ accounts_db = SummaryStore(<< <<Owner, "checking", Some(100)>> >>)
       /\ now = 0
       /\ allocated = 1
       /\ deleted = {}
       /\ req = Request("none", NoHeader, 0, None)
       /\ resp = OK(None)
       /\ inflight = NoInflight

\* the server accepts a request while others may be waiting
Arrive(s, r) ==
    /\ inflight[s].pc = "idle"
    /\ inflight' = [inflight EXCEPT ![s] =
                      [pc |-> "pending", request |-> r, status |-> 0,
                       raced |-> \E o \in Slots : inflight[o].pc = "pending"]]
    /\ UNCHANGED <<users_db, sessions, accounts_db, now, allocated, issued, deleted, req, resp>>

\* a handler scheduled after another task wrote the store, which goes on from
\* a check it made before it gave up control
Handle_resumed(s) ==
    /\ inflight[s].pc = "pending"
    /\ LET r == inflight[s].request IN
       \/ r.op = "register" /\ register_overwrite(r.body)
       \/ r.op = "update" /\ update_account(r.authorization, r.account_id, r.body)
       \/ r.op = "delete" /\ delete_account(r.authorization, r.account_id)
    /\ inflight' = [inflight EXCEPT ![s].pc = "done", ![s].status = resp'.status]

\* the event loop runs the handler of a waiting request from entry to return
Handle(s) ==
    /\ inflight[s].pc = "pending"
    /\ LET r == inflight[s].request IN
       \/ r.op = "register" /\ register(r.body)
       \/ r.op = "update" /\ update_account(r.authorization, r.account_id, r.body)
       \/ r.op = "delete" /\ delete_account(r.authorization, r.account_id)
    /\ inflight' = [inflight EXCEPT ![s].pc = "done", ![s].status = resp'.status]

NextConcurrent ==
    \/ Tick /\ UNCHANGED inflight
    \/ \E s \in Slots, r \in ConcurrentRequests : Arrive(s, r)
    \/ \E s \in Slots : Handle(s)

SpecConcurrent == InitConcurrent /\ [][NextConcurrent]_vars

\* the list body holds exactly the stored accounts of user, each once, in the
\* order in which their ids were drawn, and none that was deleted
ListsOwned(body, user) ==
    /\ Len(body) = Cardinality(OwnedBy(user))
    /\ \A i \in OwnedBy(user) :
          \E k \in 1..Len(body) : body[k] = accounts_db[i].val
    /\ \A k \in 1..Len(body) :
          /\ body[k].user_email = user
          /\ body[k].id \in Keys(accounts_db) \ deleted
    /\ \A k, l \in 1..Len(body) : k < l => body[k].id < body[l].id

\* C11: list answers an authenticated caller with exactly the accounts in the
\* store that the caller owns, none of another user and none deleted, in the
\* order of their creation, which an update does not change.
C11_ListExactlyOwned ==
    (req.op = "list" /\ Caller(req).ok) =>
        /\ resp.status = 200
        /\ ListsOwned(resp.body, Caller(req).user)
\* C12: after every step each id is the key of one row of accounts_db, the
\* record of that row carries the id as its own, and an id that the step keeps
\* in the store keeps its owner.
C12_OneOwnerPerId ==
    [][ /\ \A i, j \in 1..Len(accounts_db') :
              accounts_db'[i].key = accounts_db'[j].key => i = j
        /\ \A i \in 1..Len(accounts_db') :
              accounts_db'[i].val.id = accounts_db'[i].key
        /\ \A id \in Keys(accounts_db) \cap Keys(accounts_db') :
              Lookup(accounts_db', id).user_email
                 = Lookup(accounts_db, id).user_email ]_vars

\* the owner updated one of two accounts held by different users
C12_Witness ==
    /\ req.op = "update"
    /\ resp.status = 200
    /\ Len(accounts_db) = 2
    /\ accounts_db[1].val.user_email # accounts_db[2].val.user_email
    /\ resp.body.updated_at # resp.body.created_at

\* C14: a summary that is returned has the types of the owner's accounts as
\* the keys of accounts_by_type and of total_by_type alike, and under each type
\* the owner's accounts of that type, each once.
C14_SummaryKeySets ==
    (req.op = "summary" /\ resp.status = 200) =>
        LET user == Caller(req).user
            mine == OwnedBy(user)
            held == { accounts_db[i].val.account_type : i \in mine }
            b == resp.body
        IN /\ DOMAIN b.accounts_by_type = held
           /\ DOMAIN b.total_by_type = held
           /\ \A t \in held :
                 LET listed == b.accounts_by_type[t] IN
                 /\ Len(listed) = Cardinality(OfType(mine, {t}))
                 /\ \A i \in OfType(mine, {t}) :
                       \E k \in 1..Len(listed) : listed[k] = accounts_db[i].val
                 /\ \A k \in 1..Len(listed) :
                       /\ listed[k].account_type = t
                       /\ listed[k].user_email = user

\* a user with two checking accounts, next to a savings account of the other
\* user, got a summary with checking as its only key
C14_Witness ==
    /\ req.op = "summary"
    /\ resp.status = 200
    /\ Len(accounts_db) = 3
    /\ DOMAIN resp.body.accounts_by_type = {"checking"}
    /\ Len(resp.body.accounts_by_type["checking"]) = 2
    /\ \E i \in 1..Len(accounts_db) :
          /\ accounts_db[i].val.account_type = "savings"
          /\ accounts_db[i].val.user_email # Caller(req).user

\* C15: a request answered with an error leaves users_db, sessions and
\* accounts_db as they were before it.
C15_ErrorsLeaveStores ==
    [][ (now' = now /\ resp'.status # 200) =>
           UNCHANGED <<users_db, sessions, accounts_db>> ]_vars

\* C17: the balance of every stored account is a number.
C17_BalanceNeverNull ==
    \A i \in 1..Len(accounts_db) : accounts_db[i].val.balance # None
\* C13: every session leads to a registered user, every account belongs to a
\* registered user, and the profile request with an accepted token answers
\* with the profile of the user the token was issued to.
C13_ReferencesResolve ==
    /\ \A t \in DOMAIN sessions : sessions[t] \in DOMAIN users_db
    /\ \A i \in 1..Len(accounts_db) :
          accounts_db[i].val.user_email \in DOMAIN users_db
    /\ (req.op = "me" /\ Caller(req).ok) =>
          /\ resp.status = 200
          /\ resp.body.email = Caller(req).user
          /\ \E k \in 1..Len(issued) :
                /\ issued[k].token = replace_Bearer(req.authorization.value)
                /\ issued[k].email = resp.body.email

\* both users are registered, one holds an account, and the other asked for
\* the profile with the token of a login
C13_Witness ==
    /\ req.op = "me"
    /\ resp.status = 200
    /\ DOMAIN users_db = Emails
    /\ Len(accounts_db) >= 1
    /\ accounts_db[1].val.user_email # resp.body.email
\* C16: a get, update or delete sent by a user who never logged in as the
\* owner of the account is not answered with the account and leaves the
\* account store as it was.
C16_PasswordGuardsAccount ==
    [][ \A op \in {"get", "update", "delete"} :
          (/\ RequestStep(op)
           /\ req'.account_id \in Keys(accounts_db)
           /\ Lookup(accounts_db, req'.account_id).user_email = Owner)
             => /\ resp'.status # 200
                /\ accounts_db' = accounts_db ]_vars
\* the slots whose request was served
Served(op) ==
    { s \in Slots : inflight[s].pc = "done" /\ inflight[s].request.op = op }

\* C18: of the served register requests for one email that was free, exactly
\* one got 200 and every other got 400 (of two: one success, one Conflict); a
\* delete that got 200 leaves its id out of the store whatever update was in
\* flight with it, and no deleted id is back.
C18_HandlersAtomic ==
    /\ \A s \in Served("register") :
          LET same == { t \in Served("register") :
                          inflight[t].request.body.email
                             = inflight[s].request.body.email }
          IN /\ Cardinality({ t \in same : inflight[t].status = 200 }) = 1
             /\ \A t \in same : inflight[t].status \in {200, 400}
    /\ \A s \in Served("delete") :
          inflight[s].status = 200 => inflight[s].request.account_id \notin Keys(accounts_db)
    /\ deleted \cap Keys(accounts_db) = {}
    /\ \A s \in Served("update") :
          (inflight[s].status = 200 /\ inflight[s].request.account_id \in deleted)
             => \E t \in Served("delete") : inflight[t].status = 200

\* two register requests for b@x.io waited together and were served, one 200
\* and one 400
C18_Witness ==
    /\ Served("register") = Slots
    /\ \E s \in Slots : inflight[s].raced
    /\ \E s, t \in Slots : inflight[s].status = 200 /\ inflight[t].status = 400
    /\ "b@x.io" \in DOMAIN users_db

\* an update and a delete of account 1 waited together, the update was served
\* first and the delete after it
C18_WitnessRace ==
    /\ \E s, t \in Slots :
          /\ inflight[s].pc = "done" /\ inflight[s].request.op = "update"
          /\ inflight[s].status = 200
          /\ inflight[t].pc = "done" /\ inflight[t].request.op = "delete"
          /\ inflight[t].status = 200
          /\ inflight[s].raced \/ inflight[t].raced
    /\ accounts_db = <<>>
====
